---- MODULE Spec2Model ----
(***************************************************************************)
(* Health-records canister (src/src/lib.rs): a durable map from caller     *)
(* principal to the caller's Vec<HealthRecord>, with the update calls      *)
(* add_record / delete_record, the query calls get_my_records /            *)
(* get_record_by_id / get_record_count / health_check / whoami, the host   *)
(* clock and the canister upgrade cycle.                                   *)
(*                                                                         *)
(* Strings that the code only copies or compares (ids, urls, messages) are *)
(* TLA+ strings; strings the code trims (title, record_type) are sequences *)
(* of one-character strings.  Option<T> is a sequence of length 0 or 1.    *)
(*                                                                         *)
(* call, response and pre record the last call, its answer and the map     *)
(* before it.  Spec takes every call as one step.  SpecSteps takes the     *)
(* update calls in two steps, the read of the caller's Vec and the write   *)
(* back: executing holds the calls between the two, and completed records, *)
(* per owner, the records of the adds that ended, in the order they ended  *)
(* (void once the owner deleted).                                          *)
(***************************************************************************)
EXTENDS Integers, Sequences, FiniteSets, TLC

VARIABLES USER_RECORDS, time, call, response, pre, executing, completed

vars == <<USER_RECORDS, time, call, response, pre, executing, completed>>

-----------------------------------------------------------------------------
(* Bounds of the model *)

\* at most this many records in the whole store
MaxRecords == 3
\* the clock advances at most this many times
MaxTicks == 2
\* at most this many records in the whole store when calls take two steps
MaxStepRecords == 2

-----------------------------------------------------------------------------
(* Option<T> *)

None == << >>
Some(x) == <<x>>

-----------------------------------------------------------------------------
(* Principals: the byte strings of candid::Principal and their text form *)

anonymous == <<4>>
alice == <<0, 0, 0, 0, 0, 0, 0, 1, 1, 1>>
bob == <<0, 0, 0, 0, 0, 0, 0, 2, 1, 1>>

Principals == {anonymous, alice, bob}

Owners == Principals \ {anonymous}

to_text(p) ==
  CASE p = anonymous -> "2vxsx-fae"
    [] p = alice -> "rrkah-fqaaa-aaaaa-aaaaq-cai"
    [] p = bob -> "ryjl3-tyaaa-aaaaa-aaaba-cai"

-----------------------------------------------------------------------------
(* Formatting and trimming *)

Digit(d) == <<"0", "1", "2", "3", "4", "5", "6", "7", "8", "9">>[d + 1]

RECURSIVE Decimal(_)
\* Display of an unsigned integer
Decimal(n) == IF n < 10 THEN Digit(n) ELSE Decimal(n \div 10) \o Digit(n % 10)

is_whitespace(c) == c \in {" ", "\t", "\n"}

RECURSIVE trim_start(_)
trim_start(s) ==
  IF Len(s) > 0 /\ is_whitespace(Head(s)) THEN trim_start(Tail(s)) ELSE s

RECURSIVE trim_end(_)
trim_end(s) ==
  IF Len(s) > 0 /\ is_whitespace(s[Len(s)])
  THEN trim_end(SubSeq(s, 1, Len(s) - 1))
  ELSE s

\* a trim of the leading whitespace only
trim_leading_only(s) == trim_start(s)

\* validation and storage that forget to trim
trim_noop(s) == s

trim(s) == trim_end(trim_start(s))

is_empty(s) == Len(s) = 0

-----------------------------------------------------------------------------
(* The durable map *)

\* StableBTreeMap::new on a memory: formats it as an empty map
StableBTreeMap_new(memory) == << >>

\* StableBTreeMap::init on a memory: loads the map the memory holds
StableBTreeMap_init(memory) == memory

\* a memory nothing was written to
EmptyMemory == << >>

map_get(records, key) ==
  IF key \in DOMAIN records THEN Some(records[key]) ELSE None

map_insert(records, key, value) ==
  [k \in (DOMAIN records) \cup {key} |-> IF k = key THEN value ELSE records[k]]

unwrap_or_default(opt) == IF opt = None THEN << >> ELSE opt[1]

-----------------------------------------------------------------------------
(* Helpers *)

NANOS_PER_SEC == 1000000000

\* an id made of the timestamp alone
generate_record_id_no_user(user, timestamp) == Decimal(timestamp)

generate_record_id(user, timestamp) ==
  to_text(user) \o "_" \o Decimal(timestamp)

get_current_timestamp(now) == now \div NANOS_PER_SEC

ApiResponse(success, message, data) ==
  [success |-> success, message |-> message, data |-> data]

\* retain with the test the wrong way round: keeps the matches
retain_matches(v, record_id) == SelectSeq(v, LAMBDA r : r.id = record_id)

\* removal of the first match only
retain_first(v, record_id) ==
  LET hits == {i \in 1..Len(v) : v[i].id = record_id}
  IN  IF hits = {} THEN v
      ELSE LET i == CHOOSE h \in hits : \A j \in hits : h <= j
           IN  SubSeq(v, 1, i - 1) \o SubSeq(v, i + 1, Len(v))

\* Vec::retain(|r| r.id != record_id)
retain(v, record_id) == SelectSeq(v, LAMBDA r : r.id # record_id)

\* Iterator::find(|r| r.id == record_id)
find(v, record_id) ==
  LET hits == {i \in 1..Len(v) : v[i].id = record_id}
  IN  IF hits = {} THEN None
      ELSE Some(v[CHOOSE i \in hits : \A j \in hits : i <= j])

-----------------------------------------------------------------------------
(* The canister methods, as functions of the caller, the argument, the map *)
(* and the clock reading; each returns the response and the map it leaves  *)

\* a push that treats the id as a key and drops the records carrying it
push_replacing(v, record) == Append(retain(v, record.id), record)

\* Vec::push
push(v, record) == Append(v, record)

\* add_record without the check of the caller
add_record_no_auth(caller, request, records, now) ==
  IF is_empty(trim(request.title))
  THEN [response |-> ApiResponse(FALSE, "Title cannot be empty", None),
        records |-> records]
  ELSE IF is_empty(trim(request.record_type))
  THEN [response |-> ApiResponse(FALSE, "Record type cannot be empty", None),
        records |-> records]
  ELSE
    LET current_time == get_current_timestamp(now)
        new_record == [id |-> generate_record_id(caller, current_time),
                       title |-> trim(request.title),
                       record_type |-> trim(request.record_type),
                       date |-> current_time,
                       encrypted_url |-> request.encrypted_url,
                       file_size |-> request.file_size,
                       created_at |-> current_time]
        user_records == unwrap_or_default(map_get(records, caller))
    IN  [response |-> ApiResponse(TRUE, "Record added successfully", None),
         records |-> map_insert(records, caller, push(user_records, new_record))]

add_record(caller, request, records, now) ==
  IF caller = anonymous
  THEN [response |-> ApiResponse(FALSE, "Anonymous users cannot add records", None),
        records |-> records]
  ELSE IF is_empty(trim(request.title))
  THEN [response |-> ApiResponse(FALSE, "Title cannot be empty", None),
        records |-> records]
  ELSE IF is_empty(trim(request.record_type))
  THEN [response |-> ApiResponse(FALSE, "Record type cannot be empty", None),
        records |-> records]
  ELSE
    LET current_time == get_current_timestamp(now)
        new_record == [id |-> generate_record_id(caller, current_time),
                       title |-> trim(request.title),
                       record_type |-> trim(request.record_type),
                       date |-> current_time,
                       encrypted_url |-> request.encrypted_url,
                       file_size |-> request.file_size,
                       created_at |-> current_time]
        user_records == unwrap_or_default(map_get(records, caller))
    IN  [response |-> ApiResponse(TRUE, "Record added successfully", None),
         records |-> map_insert(records, caller, push(user_records, new_record))]

\* get_my_records that reads every owner's records, not the caller's
get_my_records_all(caller, records) ==
  IF caller = anonymous
  THEN ApiResponse(FALSE, "Authentication required", None)
  ELSE
    LET user_records == unwrap_or_default(map_get(records, alice))
                          \o unwrap_or_default(map_get(records, bob))
    IN  ApiResponse(TRUE, "Found " \o Decimal(Len(user_records)) \o " records",
                    Some(user_records))

get_my_records(caller, records) ==
  IF caller = anonymous
  THEN ApiResponse(FALSE, "Authentication required", None)
  ELSE
    LET user_records == unwrap_or_default(map_get(records, caller))
    IN  ApiResponse(TRUE, "Found " \o Decimal(Len(user_records)) \o " records",
                    Some(user_records))

\* get_record_by_id that unwraps the result of find: the call traps, with no
\* reply, when no record matches
get_record_by_id_unwrap(caller, record_id, records) ==
  IF caller = anonymous
  THEN ApiResponse(FALSE, "Authentication required", None)
  ELSE
    LET user_records == unwrap_or_default(map_get(records, caller))
        record == find(user_records, record_id)
    IN  IF record # None
        THEN ApiResponse(TRUE, "Record found", Some(<<record[1]>>))
        ELSE [trap |-> "called Option::unwrap() on a None value"]

\* get_record_by_id that tells a record of another owner from a missing one
get_record_by_id_denying(caller, record_id, records) ==
  IF caller = anonymous
  THEN ApiResponse(FALSE, "Authentication required", None)
  ELSE
    LET user_records == unwrap_or_default(map_get(records, caller))
        record == find(user_records, record_id)
    IN  IF record # None
        THEN ApiResponse(TRUE, "Record found", Some(<<record[1]>>))
        ELSE IF \E k \in DOMAIN records : find(records[k], record_id) # None
        THEN ApiResponse(FALSE, "Access denied", None)
        ELSE ApiResponse(FALSE, "Record not found or access denied", None)

get_record_by_id(caller, record_id, records) ==
  IF caller = anonymous
  THEN ApiResponse(FALSE, "Authentication required", None)
  ELSE
    LET user_records == unwrap_or_default(map_get(records, caller))
        record == find(user_records, record_id)
    IN  IF record # None
        THEN ApiResponse(TRUE, "Record found", Some(<<record[1]>>))
        ELSE ApiResponse(FALSE, "Record not found or access denied", None)

\* delete_record that removes the key once the sequence is empty
delete_record_remove_empty(caller, record_id, records) ==
  IF caller = anonymous
  THEN [response |-> ApiResponse(FALSE, "Authentication required", None),
        records |-> records]
  ELSE
    LET user_records == unwrap_or_default(map_get(records, caller))
        initial_len == Len(user_records)
        retained == retain(user_records, record_id)
    IN  IF Len(retained) < initial_len
        THEN [response |-> ApiResponse(TRUE, "Record deleted successfully", None),
              records |-> IF is_empty(retained)
                          THEN [k \in (DOMAIN records) \ {caller} |-> records[k]]
                          ELSE map_insert(records, caller, retained)]
        ELSE [response |-> ApiResponse(FALSE, "Record not found or access denied", None),
              records |-> records]

\* delete_record without the check of the caller
delete_record_no_auth(caller, record_id, records) ==
  LET user_records == unwrap_or_default(map_get(records, caller))
      initial_len == Len(user_records)
      retained == retain(user_records, record_id)
  IN  IF Len(retained) < initial_len
      THEN [response |-> ApiResponse(TRUE, "Record deleted successfully", None),
            records |-> map_insert(records, caller, retained)]
      ELSE [response |-> ApiResponse(FALSE, "Record not found or access denied", None),
            records |-> records]

\* delete_record that writes the sequence back before it compares the lengths
delete_record_always_insert(caller, record_id, records) ==
  IF caller = anonymous
  THEN [response |-> ApiResponse(FALSE, "Authentication required", None),
        records |-> records]
  ELSE
    LET user_records == unwrap_or_default(map_get(records, caller))
        initial_len == Len(user_records)
        retained == retain(user_records, record_id)
    IN  IF Len(retained) < initial_len
        THEN [response |-> ApiResponse(TRUE, "Record deleted successfully", None),
              records |-> map_insert(records, caller, retained)]
        ELSE [response |-> ApiResponse(FALSE, "Record not found or access denied", None),
              records |-> map_insert(records, caller, retained)]

delete_record(caller, record_id, records) ==
  IF caller = anonymous
  THEN [response |-> ApiResponse(FALSE, "Authentication required", None),
        records |-> records]
  ELSE
    LET user_records == unwrap_or_default(map_get(records, caller))
        initial_len == Len(user_records)
        retained == retain(user_records, record_id)
    IN  IF Len(retained) < initial_len
        THEN [response |-> ApiResponse(TRUE, "Record deleted successfully", None),
              records |-> map_insert(records, caller, retained)]
        ELSE [response |-> ApiResponse(FALSE, "Record not found or access denied", None),
              records |-> records]

\* get_record_count that takes the length of the map, not of the caller's Vec
get_record_count_keys(caller, records) ==
  IF caller = anonymous
  THEN 0
  ELSE Cardinality(DOMAIN records)

get_record_count(caller, records) ==
  IF caller = anonymous
  THEN 0
  ELSE Len(unwrap_or_default(map_get(records, caller)))

health_check == "Health Records Backend is running"

whoami(caller) == caller

\* pre_upgrade, the reload of the map from stable memory, post_upgrade
pre_upgrade(records) == records

post_upgrade(records) == records

upgrade(records) == post_upgrade(StableBTreeMap_init(pre_upgrade(records)))

-----------------------------------------------------------------------------
(* Inputs *)

Requests ==
  { [title |-> <<" ", "B", "T", " ">>, record_type |-> <<"L", "a", "b", "\n">>,
     encrypted_url |-> "ipfs://abc", file_size |-> Some(1024)],
    [title |-> <<"X", " ", "R">>, record_type |-> <<"\t", "I", "m", "g">>,
     encrypted_url |-> "", file_size |-> None],
    [title |-> << >>, record_type |-> <<"L", "a", "b">>,
     encrypted_url |-> "ipfs://abc", file_size |-> None],
    [title |-> <<" ", "\t">>, record_type |-> <<"L", "a", "b">>,
     encrypted_url |-> "ipfs://abc", file_size |-> Some(1024)],
    [title |-> <<"B", "T">>, record_type |-> << >>,
     encrypted_url |-> "ipfs://abc", file_size |-> None],
    [title |-> <<"B", "T">>, record_type |-> <<"\n", " ">>,
     encrypted_url |-> "", file_size |-> Some(1024)] }

Range(s) == {s[i] : i \in 1..Len(s)}

\* the ids some record of the store carries, and one that none carries
RecordIds(records) ==
  UNION {{r.id : r \in Range(records[k])} : k \in DOMAIN records}
    \cup {"no-such-id"}

RECURSIVE SumLen(_, _)
SumLen(records, keys) ==
  IF keys = {} THEN 0
  ELSE LET k == CHOOSE x \in keys : TRUE
       IN  Len(records[k]) + SumLen(records, keys \ {k})

TotalRecords(records) == SumLen(records, DOMAIN records)

TickNanos == NANOS_PER_SEC \div 2

-----------------------------------------------------------------------------
(* The state machine *)

Init ==
  /\ USER_RECORDS = StableBTreeMap_init(EmptyMemory)
  /\ time = 0
  /\ call = [op |-> "init", caller |-> anonymous, arg |-> None]
  /\ response = None
  /\ pre = StableBTreeMap_init(EmptyMemory)
  /\ executing = {}
  /\ completed = [owner \in Owners |-> [log |-> << >>, void |-> FALSE]]

AddRecord ==
  \E caller \in Principals, request \in Requests :
    LET r == add_record(caller, request, USER_RECORDS, time)
    IN  /\ TotalRecords(r.records) <= MaxRecords
        /\ USER_RECORDS' = r.records
        /\ response' = r.response
        /\ call' = [op |-> "add_record", caller |-> caller, arg |-> request]
        /\ pre' = USER_RECORDS
        /\ UNCHANGED <<time, executing, completed>>

\* a get_my_records that stores the default Vec for a caller it does not know
GetMyRecords_or_insert ==
  \E caller \in Principals :
    /\ response' = get_my_records(caller, USER_RECORDS)
    /\ call' = [op |-> "get_my_records", caller |-> caller, arg |-> None]
    /\ pre' = USER_RECORDS
    /\ USER_RECORDS' =
         IF caller = anonymous THEN USER_RECORDS
         ELSE map_insert(USER_RECORDS, caller,
                         unwrap_or_default(map_get(USER_RECORDS, caller)))
    /\ UNCHANGED <<time, executing, completed>>

GetMyRecords ==
  \E caller \in Principals :
    /\ response' = get_my_records(caller, USER_RECORDS)
    /\ call' = [op |-> "get_my_records", caller |-> caller, arg |-> None]
    /\ pre' = USER_RECORDS
    /\ UNCHANGED <<USER_RECORDS, time, executing, completed>>

GetRecordById ==
  \E caller \in Principals, record_id \in RecordIds(USER_RECORDS) :
    /\ response' = get_record_by_id(caller, record_id, USER_RECORDS)
    /\ call' = [op |-> "get_record_by_id", caller |-> caller, arg |-> record_id]
    /\ pre' = USER_RECORDS
    /\ UNCHANGED <<USER_RECORDS, time, executing, completed>>

DeleteRecord ==
  \E caller \in Principals, record_id \in RecordIds(USER_RECORDS) :
    LET r == delete_record(caller, record_id, USER_RECORDS)
    IN  /\ USER_RECORDS' = r.records
        /\ response' = r.response
        /\ call' = [op |-> "delete_record", caller |-> caller, arg |-> record_id]
        /\ pre' = USER_RECORDS
        /\ UNCHANGED <<time, executing, completed>>

GetRecordCount ==
  \E caller \in Principals :
    /\ response' = get_record_count(caller, USER_RECORDS)
    /\ call' = [op |-> "get_record_count", caller |-> caller, arg |-> None]
    /\ pre' = USER_RECORDS
    /\ UNCHANGED <<USER_RECORDS, time, executing, completed>>

HealthCheck ==
  /\ response' = health_check
  /\ call' = [op |-> "health_check", caller |-> anonymous, arg |-> None]
  /\ pre' = USER_RECORDS
  /\ UNCHANGED <<USER_RECORDS, time, executing, completed>>

Whoami ==
  \E caller \in Principals :
    /\ response' = whoami(caller)
    /\ call' = [op |-> "whoami", caller |-> caller, arg |-> None]
    /\ pre' = USER_RECORDS
    /\ UNCHANGED <<USER_RECORDS, time, executing, completed>>

\* the host clock moves on between two messages
Tick ==
  /\ time < MaxTicks * TickNanos
  /\ time' = time + TickNanos
  /\ call' = [op |-> "tick", caller |-> anonymous, arg |-> None]
  /\ response' = None
  /\ pre' = USER_RECORDS
  /\ UNCHANGED <<USER_RECORDS, executing, completed>>

\* the canister is upgraded: the heap is dropped, the map is loaded again
Upgrade ==
  /\ USER_RECORDS' = upgrade(USER_RECORDS)
  /\ call' = [op |-> "upgrade", caller |-> anonymous, arg |-> None]
  /\ response' = None
  /\ pre' = USER_RECORDS
  /\ UNCHANGED <<time, executing, completed>>

Next ==
  \/ AddRecord
  \/ GetMyRecords
  \/ GetRecordById
  \/ DeleteRecord
  \/ GetRecordCount
  \/ HealthCheck
  \/ Whoami
  \/ Tick
  \/ Upgrade

Spec == Init /\ [][Next]_vars

-----------------------------------------------------------------------------
(* The update calls in two steps: the read of the caller's Vec with the     *)
(* change made to the copy, and the write of the copy back into the map     *)

\* a suspension between the read and the write
suspends_before_write_await == TRUE

\* the closures given to USER_RECORDS.with hold no await: a call that read
\* the map writes it back before the canister takes the next message
suspends_before_write == FALSE

\* the canister takes a message when none is running or the running one is
\* suspended
MayStart == executing = {} \/ suspends_before_write

Context(op, caller, arg, user_records, resp) ==
  [op |-> op, caller |-> caller, arg |-> arg,
   user_records |-> user_records, response |-> resp]

\* add_record up to user_records.push(new_record); a rejected call ends here
StartAddRecord ==
  \E caller \in Principals, request \in Requests :
    LET r == add_record(caller, request, USER_RECORDS, time)
    IN  /\ MayStart
        /\ TotalRecords(r.records) <= MaxStepRecords
        /\ IF r.response.success
           THEN /\ executing' = executing \cup
                     {Context("add_record", caller, request,
                              r.records[caller], r.response)}
                /\ UNCHANGED <<call, response, pre>>
           ELSE /\ call' = [op |-> "add_record", caller |-> caller, arg |-> request]
                /\ response' = r.response
                /\ pre' = USER_RECORDS
                /\ UNCHANGED executing
        /\ UNCHANGED <<USER_RECORDS, time, completed>>

\* records.insert(caller, user_records) and the answer of add_record
FinishAddRecord ==
  \E ctx \in executing :
    /\ ctx.op = "add_record"
    /\ USER_RECORDS' = map_insert(USER_RECORDS, ctx.caller, ctx.user_records)
    /\ call' = [op |-> ctx.op, caller |-> ctx.caller, arg |-> ctx.arg]
    /\ response' = ctx.response
    /\ pre' = USER_RECORDS
    /\ executing' = executing \ {ctx}
    /\ completed' =
         [completed EXCEPT ![ctx.caller] =
            IF @.void THEN @
            ELSE [log |-> Append(@.log, ctx.user_records[Len(ctx.user_records)]),
                  void |-> FALSE]]
    /\ UNCHANGED time

\* delete_record up to the comparison of the lengths; a rejected call ends
\* here
StartDeleteRecord ==
  \E caller \in Principals, record_id \in RecordIds(USER_RECORDS) :
    LET r == delete_record(caller, record_id, USER_RECORDS)
    IN  /\ MayStart
        /\ IF r.response.success
           THEN /\ executing' = executing \cup
                     {Context("delete_record", caller, record_id,
                              r.records[caller], r.response)}
                /\ UNCHANGED <<call, response, pre>>
           ELSE /\ call' = [op |-> "delete_record", caller |-> caller, arg |-> record_id]
                /\ response' = r.response
                /\ pre' = USER_RECORDS
                /\ UNCHANGED executing
        /\ UNCHANGED <<USER_RECORDS, time, completed>>

\* records.insert(caller, user_records) and the answer of delete_record
FinishDeleteRecord ==
  \E ctx \in executing :
    /\ ctx.op = "delete_record"
    /\ USER_RECORDS' = map_insert(USER_RECORDS, ctx.caller, ctx.user_records)
    /\ call' = [op |-> ctx.op, caller |-> ctx.caller, arg |-> ctx.arg]
    /\ response' = ctx.response
    /\ pre' = USER_RECORDS
    /\ executing' = executing \ {ctx}
    /\ completed' = [completed EXCEPT ![ctx.caller] = [log |-> << >>, void |-> TRUE]]
    /\ UNCHANGED time

\* the clock is fixed while a message runs
TickBetweenMessages ==
  /\ executing = {}
  /\ Tick

NextSteps ==
  \/ StartAddRecord
  \/ FinishAddRecord
  \/ StartDeleteRecord
  \/ FinishDeleteRecord
  \/ TickBetweenMessages

SpecSteps == Init /\ [][NextSteps]_vars

-----------------------------------------------------------------------------
(* Vocabulary of the properties *)

\* the sequence the store holds for an owner, empty when it holds none
RecordsOf(records, owner) ==
  IF owner \in DOMAIN records THEN records[owner] ELSE << >>

\* empty or made of whitespace only
Blank(s) == \A i \in 1..Len(s) : is_whitespace(s[i])

\* t is s without its leading and trailing whitespace
TrimmedOf(s, t) ==
  \E i \in 1..Len(s), j \in 1..Len(s) :
    /\ t = SubSeq(s, i, j)
    /\ \A k \in 1..(i - 1) : is_whitespace(s[k])
    /\ \A k \in (j + 1)..Len(s) : is_whitespace(s[k])
    /\ ~is_whitespace(s[i])
    /\ ~is_whitespace(s[j])

HasId(v, record_id) == \E i \in 1..Len(v) : v[i].id = record_id

NotFoundResponse == ApiResponse(FALSE, "Record not found or access denied", None)

\* the last call was op, made by a non-anonymous owner
OwnerCalled(op) == call.op = op /\ call.caller \in Owners

-----------------------------------------------------------------------------
(* C1 *)

\* what C1 requires of an add_record(request) by owner at clock reading now
\* that took the store from before to after and answered resp
AddAppends(owner, request, now, before, after, resp) ==
  LET old == get_my_records(owner, before).data[1]
      new == get_my_records(owner, after).data
      secs == now \div NANOS_PER_SEC
  IN  /\ resp.success
      /\ new # None
      /\ Len(new[1]) = Len(old) + 1
      /\ SubSeq(new[1], 1, Len(old)) = old
      /\ LET added == new[1][Len(old) + 1]
         IN  /\ TrimmedOf(request.title, added.title)
             /\ TrimmedOf(request.record_type, added.record_type)
             /\ added.encrypted_url = request.encrypted_url
             /\ added.file_size = request.file_size
             /\ added.date = secs
             /\ added.created_at = secs
             /\ added.id = to_text(owner) \o "_" \o Decimal(secs)

\* C1: an add_record by a non-anonymous owner with a title and a record_type
\* that are non-empty after trimming succeeds, and get_my_records then returns
\* the owner's previous sequence with one record appended at the end, which
\* carries the trimmed title and record_type, the request's encrypted_url and
\* file_size, date = created_at = the time in seconds and id = owner text "_"
\* time; no earlier record is removed, replaced or reordered.
C1_AddAppendsRecord ==
  (/\ OwnerCalled("add_record")
   /\ ~Blank(call.arg.title)
   /\ ~Blank(call.arg.record_type))
  => AddAppends(call.caller, call.arg, time, pre, USER_RECORDS, response)

\* an add succeeded whose id equals the id of a record the owner already had
C1_Witness ==
  /\ OwnerCalled("add_record")
  /\ response.success
  /\ LET v == RecordsOf(USER_RECORDS, call.caller)
     IN  /\ Len(v) >= 2
         /\ HasId(RecordsOf(pre, call.caller), v[Len(v)].id)
         /\ v[Len(v)].title # call.arg.title

-----------------------------------------------------------------------------
(* C2 *)

\* the ids add_record generates for owner up to the current time
IdsOf(owner) ==
  {generate_record_id(owner, t) : t \in 0..get_current_timestamp(time)}

\* C2: cross-owner isolation.  An add_record by owner A leaves what every
\* other owner B gets from get_my_records, get_record_by_id (for any id) and
\* get_record_count as it was, and in every state no record that carries an
\* id made for A is returned to B by get_my_records or get_record_by_id.
C2_CrossOwnerIsolation ==
  /\ OwnerCalled("add_record") =>
       \A B \in Owners \ {call.caller} :
         /\ get_my_records(B, USER_RECORDS) = get_my_records(B, pre)
         /\ get_record_count(B, USER_RECORDS) = get_record_count(B, pre)
         /\ RecordsOf(USER_RECORDS, B) = RecordsOf(pre, B)
         /\ \A id \in RecordIds(USER_RECORDS) :
              get_record_by_id(B, id, USER_RECORDS) = get_record_by_id(B, id, pre)
  /\ \A A \in Owners : \A B \in Owners \ {A} :
       /\ \A r \in Range(get_my_records(B, USER_RECORDS).data[1]) : r.id \notin IdsOf(A)
       /\ \A id \in IdsOf(A) \cup RecordIds(USER_RECORDS) :
            LET got == get_record_by_id(B, id, USER_RECORDS)
            IN  /\ id \in IdsOf(A) => got = NotFoundResponse
                /\ got.success => got.data[1][1].id \notin IdsOf(A)
       /\ get_record_count(B, USER_RECORDS) = Len(RecordsOf(USER_RECORDS, B))

\* A has just added a record while B holds records of its own
C2_Witness ==
  /\ OwnerCalled("add_record")
  /\ response.success
  /\ \E B \in Owners \ {call.caller} :
       /\ Len(RecordsOf(USER_RECORDS, B)) >= 1
       /\ Len(RecordsOf(USER_RECORDS, call.caller)) >= 1
       /\ RecordsOf(USER_RECORDS, B)[1].created_at
            = RecordsOf(USER_RECORDS, call.caller)[1].created_at

-----------------------------------------------------------------------------
(* C3 *)

\* C3: a delete_record(id) by a non-anonymous owner whose sequence holds the
\* id (once or several times) succeeds, and a get_record_by_id(id) by the
\* same owner right after it answers not found.
C3_DeleteThenGetNotFound ==
  (OwnerCalled("delete_record") /\ HasId(RecordsOf(pre, call.caller), call.arg))
  => /\ response.success
     /\ get_record_by_id(call.caller, call.arg, USER_RECORDS) = NotFoundResponse

\* the owner deleted an id that two of its records carried
C3_Witness ==
  /\ OwnerCalled("delete_record")
  /\ response.success
  /\ LET v == RecordsOf(pre, call.caller)
     IN  \E i \in 1..Len(v), j \in 1..Len(v) :
           i < j /\ v[i].id = call.arg /\ v[j].id = call.arg

-----------------------------------------------------------------------------
(* C4 *)

\* v without its first record that carries record_id
WithoutFirst(v, record_id) ==
  LET i == CHOOSE h \in 1..Len(v) :
             v[h].id = record_id /\ \A j \in 1..(h - 1) : v[j].id # record_id
  IN  SubSeq(v, 1, i - 1) \o SubSeq(v, i + 1, Len(v))

\* C4: a successful delete_record(id) removes the first record that carries
\* the id, and only that one, and keeps the others in their order: the length
\* of the owner's sequence and get_record_count go down by exactly one.
C4_DeleteRemovesExactlyOne ==
  (call.op = "delete_record" /\ response.success)
  => /\ RecordsOf(USER_RECORDS, call.caller)
          = WithoutFirst(RecordsOf(pre, call.caller), call.arg)
     /\ Len(RecordsOf(USER_RECORDS, call.caller))
          = Len(RecordsOf(pre, call.caller)) - 1
     /\ get_record_count(call.caller, USER_RECORDS)
          = get_record_count(call.caller, pre) - 1

-----------------------------------------------------------------------------
(* C5 *)

\* C5: in every reachable state no two records of one owner's sequence carry
\* the same id.
C5_IdsUniquePerOwner ==
  \A owner \in DOMAIN USER_RECORDS :
    \A i \in 1..Len(USER_RECORDS[owner]), j \in 1..Len(USER_RECORDS[owner]) :
      i # j => USER_RECORDS[owner][i].id # USER_RECORDS[owner][j].id

-----------------------------------------------------------------------------
(* C6 *)

\* C6: a delete_record(id) by a non-anonymous owner whose sequence holds no
\* record with that id (or who has no entry at all) answers not found and
\* leaves the whole store as it was: get_my_records returns the same sequence
\* and no key is inserted for the owner.
C6_DeleteMissingLeavesStore ==
  (OwnerCalled("delete_record") /\ ~HasId(RecordsOf(pre, call.caller), call.arg))
  => /\ response = NotFoundResponse
     /\ USER_RECORDS = pre
     /\ DOMAIN USER_RECORDS = DOMAIN pre
     /\ get_my_records(call.caller, USER_RECORDS) = get_my_records(call.caller, pre)

\* an owner without an entry asked to delete an id that another owner holds
C6_Witness ==
  /\ OwnerCalled("delete_record")
  /\ call.caller \notin DOMAIN pre
  /\ \E B \in DOMAIN pre : HasId(pre[B], call.arg)
  /\ ~response.success

-----------------------------------------------------------------------------
(* C7 *)

\* C7: add_record by the anonymous principal fails with the unauthenticated
\* message for every request and leaves the store as it was; the anonymous
\* principal is never a key of the store.
C7_AnonymousAddRejected ==
  /\ (call.op = "add_record" /\ call.caller = anonymous)
     => /\ response = ApiResponse(FALSE, "Anonymous users cannot add records", None)
        /\ USER_RECORDS = pre
  /\ anonymous \notin DOMAIN USER_RECORDS

\* the anonymous principal sent a well-formed request to a non-empty store
C7_Witness ==
  /\ call.op = "add_record"
  /\ call.caller = anonymous
  /\ ~Blank(call.arg.title)
  /\ ~Blank(call.arg.record_type)
  /\ DOMAIN USER_RECORDS # {}

-----------------------------------------------------------------------------
(* C8 *)

\* C8: add_record by a non-anonymous owner with a title or a record_type that
\* is empty or whitespace-only fails with the invalid-input message and leaves
\* the store as it was.
C8_BlankInputRejected ==
  (OwnerCalled("add_record") /\ (Blank(call.arg.title) \/ Blank(call.arg.record_type)))
  => /\ ~response.success
     /\ response.data = None
     /\ response.message = IF Blank(call.arg.title)
                           THEN "Title cannot be empty"
                           ELSE "Record type cannot be empty"
     /\ USER_RECORDS = pre

\* an owner that holds records sent a whitespace-only title
C8_Witness ==
  /\ OwnerCalled("add_record")
  /\ Blank(call.arg.title)
  /\ Len(call.arg.title) > 0
  /\ Len(RecordsOf(USER_RECORDS, call.caller)) >= 1
  /\ ~response.success

-----------------------------------------------------------------------------
(* C9 *)

\* C9: get_record_count by a non-anonymous owner returns the length of the
\* sequence get_my_records returns for that owner in the same state (0 when
\* the owner has no entry), and 0 for the anonymous principal.
C9_CountIsLengthOfList ==
  /\ \A O \in Owners :
       /\ get_my_records(O, USER_RECORDS).data # None
       /\ get_record_count(O, USER_RECORDS)
            = Len(get_my_records(O, USER_RECORDS).data[1])
       /\ O \notin DOMAIN USER_RECORDS => get_record_count(O, USER_RECORDS) = 0
  /\ get_record_count(anonymous, USER_RECORDS) = 0
  /\ call.op = "get_record_count"
     => response = IF call.caller = anonymous THEN 0
                   ELSE Len(get_my_records(call.caller, USER_RECORDS).data[1])

\* an owner with two records asked for its count while another has one
C9_Witness ==
  /\ OwnerCalled("get_record_count")
  /\ response = 2
  /\ \E B \in Owners \ {call.caller} : Len(RecordsOf(USER_RECORDS, B)) = 1

-----------------------------------------------------------------------------
(* C10 *)

\* C10: an upgrade (pre_upgrade, reload of the map, post_upgrade), taken in
\* any reachable state and any number of times, leaves the store as it was:
\* get_my_records returns for every owner the records it returned before, in
\* the same order.
C10_UpgradeKeepsStore ==
  call.op = "upgrade"
  => /\ USER_RECORDS = pre
     /\ \A O \in Owners :
          get_my_records(O, USER_RECORDS) = get_my_records(O, pre)

\* the canister was upgraded while both owners held records
C10_Witness ==
  /\ call.op = "upgrade"
  /\ \A O \in Owners : Len(RecordsOf(pre, O)) >= 1
  /\ \E O \in Owners : Len(RecordsOf(pre, O)) >= 2

-----------------------------------------------------------------------------
(* C11 *)

\* the store with the entries of every other owner taken away
OnlyOf(records, owner) ==
  [k \in (DOMAIN records) \cap {owner} |-> records[k]]

\* C11: existence non-disclosure.  What owner B gets from get_record_by_id(id)
\* and delete_record(id) depends on B's own sequence only: it is the answer B
\* would get if no other owner had any record, so for an id that a record of
\* another owner A carries it is the answer for an id that nobody holds; and
\* such a delete_record by B leaves A's sequence as it was.
C11_ExistenceNotDisclosed ==
  /\ \A B \in Owners : \A id \in RecordIds(USER_RECORDS) :
       LET got == get_record_by_id(B, id, USER_RECORDS)
           del == delete_record(B, id, USER_RECORDS)
       IN  /\ got = get_record_by_id(B, id, OnlyOf(USER_RECORDS, B))
           /\ del.response = delete_record(B, id, OnlyOf(USER_RECORDS, B)).response
           /\ ~HasId(RecordsOf(USER_RECORDS, B), id)
              => /\ got = get_record_by_id(B, "no-such-id", USER_RECORDS)
                 /\ del.response = delete_record(B, "no-such-id", USER_RECORDS).response
                 /\ \A A \in Owners \ {B} :
                      RecordsOf(del.records, A) = RecordsOf(USER_RECORDS, A)
  /\ (/\ call.op \in {"get_record_by_id", "delete_record"}
      /\ call.caller \in Owners
      /\ ~HasId(RecordsOf(pre, call.caller), call.arg))
     => /\ response = NotFoundResponse
        /\ \A A \in Owners \ {call.caller} :
             RecordsOf(USER_RECORDS, A) = RecordsOf(pre, A)

\* B, who holds records, asked to delete an id that a record of A carries
C11_Witness ==
  /\ OwnerCalled("delete_record")
  /\ Len(RecordsOf(pre, call.caller)) >= 1
  /\ \E A \in Owners \ {call.caller} : HasId(RecordsOf(pre, A), call.arg)

-----------------------------------------------------------------------------
(* C12 *)

UnauthenticatedResponse == ApiResponse(FALSE, "Authentication required", None)

\* C12: get_my_records, get_record_by_id and delete_record by the anonymous
\* principal fail with the unauthenticated response (success = false, no
\* data) in every state and for every id and leave the store as it was; of the
\* five store operations only get_record_count answers the anonymous
\* principal without a failure.
C12_AnonymousRejected ==
  /\ get_my_records(anonymous, USER_RECORDS) = UnauthenticatedResponse
  /\ \A id \in RecordIds(USER_RECORDS) :
       /\ get_record_by_id(anonymous, id, USER_RECORDS) = UnauthenticatedResponse
       /\ delete_record(anonymous, id, USER_RECORDS).response = UnauthenticatedResponse
       /\ delete_record(anonymous, id, USER_RECORDS).records = USER_RECORDS
  /\ (/\ call.caller = anonymous
      /\ call.op \in {"get_my_records", "get_record_by_id", "delete_record"})
     => /\ response = UnauthenticatedResponse
        /\ ~response.success
        /\ response.data = None
        /\ USER_RECORDS = pre
  /\ (call.caller = anonymous /\ call.op = "add_record") => ~response.success
  /\ (call.caller = anonymous /\ call.op = "get_record_count") => response = 0

\* the anonymous principal asked to delete an id that a record carries
C12_Witness ==
  /\ call.op = "delete_record"
  /\ call.caller = anonymous
  /\ \E O \in Owners : HasId(RecordsOf(pre, O), call.arg)

-----------------------------------------------------------------------------
(* C13 *)

\* how many times v holds the record r, all fields equal
Count(v, r) == Cardinality({i \in 1..Len(v) : v[i] = r})

\* C13: no data loss.  A record that an add_record of owner O stored stays
\* in O's sequence with all its fields, through every later call of every
\* caller, every clock step and every upgrade, until O itself makes a
\* successful delete_record with the id of that record.
C13_NoDataLoss ==
  /\ \A O \in Owners : \A r \in Range(RecordsOf(pre, O)) :
       \/ Count(RecordsOf(USER_RECORDS, O), r) >= Count(RecordsOf(pre, O), r)
       \/ /\ call.op = "delete_record"
          /\ call.caller = O
          /\ call.arg = r.id
          /\ response.success
  /\ (OwnerCalled("add_record") /\ response.success)
     => LET v == RecordsOf(USER_RECORDS, call.caller)
        IN  /\ Len(v) >= 1
            /\ Count(v, v[Len(v)]) = Count(RecordsOf(pre, call.caller), v[Len(v)]) + 1

\* an owner deleted one of its records and kept another, next to the records
\* of the other owner
C13_Witness ==
  /\ OwnerCalled("delete_record")
  /\ response.success
  /\ Len(RecordsOf(USER_RECORDS, call.caller)) >= 1
  /\ \E B \in Owners \ {call.caller} : Len(RecordsOf(USER_RECORDS, B)) >= 1

-----------------------------------------------------------------------------
(* C14 *)

ReadOps ==
  {"get_my_records", "get_record_by_id", "get_record_count", "health_check", "whoami"}

\* what the read named by c answers in the store records
ReadResult(c, records) ==
  CASE c.op = "get_my_records" -> get_my_records(c.caller, records)
    [] c.op = "get_record_by_id" -> get_record_by_id(c.caller, c.arg, records)
    [] c.op = "get_record_count" -> get_record_count(c.caller, records)
    [] c.op = "health_check" -> health_check
    [] c.op = "whoami" -> whoami(c.caller)

\* C14: get_my_records, get_record_by_id, get_record_count, health_check and
\* whoami leave the whole store as it was for every caller and argument: no
\* key is inserted for a caller without records, and the same read made again
\* in the state the read left returns the same result.
C14_ReadsLeaveStore ==
  call.op \in ReadOps
  => /\ USER_RECORDS = pre
     /\ DOMAIN USER_RECORDS = DOMAIN pre
     /\ ReadResult(call, USER_RECORDS) = response

\* an owner without an entry listed its records while another owner has some
C14_Witness ==
  /\ OwnerCalled("get_my_records")
  /\ call.caller \notin DOMAIN USER_RECORDS
  /\ response.success
  /\ DOMAIN USER_RECORDS # {}

-----------------------------------------------------------------------------
(* C15 *)

\* C15: in every reachable state every record stored under the key O has
\* id = text of O, "_", created_at, and date = created_at; so no record and
\* no id is found under two different keys.
C15_RecordsBelongToTheirKey ==
  /\ \A O \in DOMAIN USER_RECORDS : \A r \in Range(USER_RECORDS[O]) :
       /\ r.id = to_text(O) \o "_" \o Decimal(r.created_at)
       /\ r.date = r.created_at
  /\ \A A \in DOMAIN USER_RECORDS : \A B \in (DOMAIN USER_RECORDS) \ {A} :
       /\ Range(USER_RECORDS[A]) \cap Range(USER_RECORDS[B]) = {}
       /\ {r.id : r \in Range(USER_RECORDS[A])}
            \cap {r.id : r \in Range(USER_RECORDS[B])} = {}

\* two owners hold records that differ in nothing but the id, and one of them
\* holds records of two different seconds
C15_Witness ==
  \E A \in DOMAIN USER_RECORDS : \E B \in (DOMAIN USER_RECORDS) \ {A} :
    /\ \E ra \in Range(USER_RECORDS[A]) : \E rb \in Range(USER_RECORDS[B]) :
         /\ ra.id # rb.id
         /\ [ra EXCEPT !.id = rb.id] = rb
    /\ \E r1 \in Range(USER_RECORDS[A]) : \E r2 \in Range(USER_RECORDS[A]) :
         r1.created_at # r2.created_at

-----------------------------------------------------------------------------
(* C16 *)

\* C16: no operation removes a key of the store.  After an owner deleted its
\* last record its key is still there with the empty sequence,
\* get_my_records succeeds with an empty list, get_record_count returns 0,
\* and an add_record of that owner then yields a sequence of one record.
C16_KeysNeverRemoved ==
  /\ DOMAIN pre \subseteq DOMAIN USER_RECORDS
  /\ (/\ OwnerCalled("delete_record")
      /\ response.success
      /\ RecordsOf(USER_RECORDS, call.caller) = << >>)
     => /\ call.caller \in DOMAIN USER_RECORDS
        /\ USER_RECORDS[call.caller] = << >>
        /\ get_my_records(call.caller, USER_RECORDS)
             = ApiResponse(TRUE, "Found 0 records", Some(<< >>))
        /\ get_record_count(call.caller, USER_RECORDS) = 0
        /\ \A request \in Requests :
             LET r == add_record(call.caller, request, USER_RECORDS, time)
             IN  r.response.success => Len(r.records[call.caller]) = 1
  /\ (/\ OwnerCalled("add_record")
      /\ response.success
      /\ call.caller \in DOMAIN pre
      /\ pre[call.caller] = << >>)
     => Len(USER_RECORDS[call.caller]) = 1

\* an owner added a record after it had deleted its last one
C16_Witness ==
  /\ OwnerCalled("add_record")
  /\ response.success
  /\ call.caller \in DOMAIN pre
  /\ pre[call.caller] = << >>

-----------------------------------------------------------------------------
(* C18 *)

\* non-empty, and neither the first nor the last character is whitespace
CleanText(s) ==
  /\ Len(s) > 0
  /\ ~is_whitespace(s[1])
  /\ ~is_whitespace(s[Len(s)])

\* C18: in every reachable state every stored record has a non-empty title
\* and a non-empty record_type, both without leading or trailing whitespace.
C18_StoredTextIsTrimmed ==
  \A O \in DOMAIN USER_RECORDS : \A r \in Range(USER_RECORDS[O]) :
    /\ CleanText(r.title)
    /\ CleanText(r.record_type)

\* a request whose title and record_type end in whitespace was stored
C18_Witness ==
  /\ OwnerCalled("add_record")
  /\ response.success
  /\ is_whitespace(call.arg.title[Len(call.arg.title)])
  /\ is_whitespace(call.arg.record_type[Len(call.arg.record_type)])
  /\ Len(RecordsOf(USER_RECORDS, call.caller)) > Len(RecordsOf(pre, call.caller))

-----------------------------------------------------------------------------
(* C19 *)

\* a success or failure envelope
IsApiResponse(resp) ==
  /\ DOMAIN resp = {"success", "message", "data"}
  /\ resp.success \in BOOLEAN
  /\ resp.message \in STRING
  /\ resp.data = None \/ Len(resp.data) = 1

\* C19: every operation is total.  In every reachable state, for every
\* caller and argument, add_record, get_my_records, get_record_by_id and
\* delete_record return an envelope and get_record_count a natural number,
\* never a trap; an anonymous caller, a blank title or record_type and an id
\* the caller does not hold are answered with success = false.
C19_OperationsAreTotal ==
  /\ \A caller \in Principals :
       /\ IsApiResponse(get_my_records(caller, USER_RECORDS))
       /\ caller = anonymous => ~get_my_records(caller, USER_RECORDS).success
       /\ get_record_count(caller, USER_RECORDS) \in Nat
       /\ \A request \in Requests :
            LET r == add_record(caller, request, USER_RECORDS, time).response
            IN  /\ IsApiResponse(r)
                /\ (\/ caller = anonymous
                    \/ Blank(request.title)
                    \/ Blank(request.record_type)) => ~r.success
       /\ \A id \in RecordIds(USER_RECORDS) :
            LET g == get_record_by_id(caller, id, USER_RECORDS)
                d == delete_record(caller, id, USER_RECORDS).response
                missing == caller = anonymous
                             \/ ~HasId(RecordsOf(USER_RECORDS, caller), id)
            IN  /\ IsApiResponse(g)
                /\ IsApiResponse(d)
                /\ missing => (~g.success /\ ~d.success)
  /\ call.op \in {"add_record", "get_my_records", "get_record_by_id", "delete_record"}
     => IsApiResponse(response)
  /\ call.op = "get_record_count" => response \in Nat

\* an owner without an entry asked for an id and got a failure envelope
C19_Witness ==
  /\ OwnerCalled("get_record_by_id")
  /\ call.caller \notin DOMAIN USER_RECORDS
  /\ DOMAIN USER_RECORDS # {}
  /\ IsApiResponse(response)
  /\ ~response.success

-----------------------------------------------------------------------------
(* C17 *)

\* C17: add_record and delete_record read the owner's sequence, change it
\* and write it back as one indivisible step: no second call runs between
\* the read and the write of a call, so no update is lost, and after n
\* successful add_record calls of an owner and no delete of that owner its
\* sequence holds exactly the n added records in the order the adds ended.
C17_NoLostUpdate ==
  /\ Cardinality(executing) <= 1
  /\ \A O \in Owners :
       ~completed[O].void
       => /\ RecordsOf(USER_RECORDS, O) = completed[O].log
          /\ get_record_count(O, USER_RECORDS) = Len(completed[O].log)

\* an owner ended two adds and never deleted, the other owner deleted, and a
\* further call is between its read and its write
C17_Witness ==
  /\ executing # {}
  /\ \E O \in Owners :
       /\ ~completed[O].void
       /\ Len(completed[O].log) >= 2
       /\ \E B \in Owners \ {O} : completed[B].void

====
